---- MODULE Spec2Model ----
(***************************************************************************)
(* State-machine model of the trail-run GPX analyzer:                      *)
(*   project/data_accessors/gpx_analyzer.py      (GPXAnalyzer)             *)
(*   project/application_services/marker_manager.py  (MarkerManager)       *)
(*   project/application_services/gpx_service.py (GPXService)              *)
(*   project/data_accessors/gpx_loader.py        (GPXLoader)               *)
(*                                                                         *)
(* Coordinates.  Every track point, waypoint and query lies on one         *)
(* meridian (a single longitude); a latitude is given as the arc length in *)
(* metres north of a reference parallel.  On a meridian the haversine      *)
(* formula reduces to R * |dlat|, i.e. to the absolute difference of the   *)
(* two arc lengths.  Elevations are whole metres in the input; inside the  *)
(* elevation pipeline they are exact rationals.  Floating-point rounding   *)
(* is not modelled.                                                        *)
(*                                                                         *)
(* Optional values (Python's None) are tuples: None is <<>>, a present     *)
(* value x is <<x>>.                                                       *)
(***************************************************************************)
EXTENDS Integers, Sequences, FiniteSets, TLC

VARIABLES
    gpx,        \* GPXService._gpx            : None or the parsed document
    analyzer,   \* GPXService._analyzer       : None or the GPXAnalyzer's fields
    markers,    \* GPXService._marker_manager : None or MarkerManager.markers
    last,       \* the last call: [op, args, ret, err]
    before,     \* `markers` as it was when the last call started
    load_succeeded  \* history: a load has succeeded since __init__ or the last reset

vars == <<gpx, analyzer, markers, last, before, load_succeeded>>

None == <<>>
Some(x) == <<x>>
Get(o) == o[1]

Abs(x) == IF x < 0 THEN -x ELSE x

Range(s) == {s[i] : i \in 1..Len(s)}

SeqsUpTo(S, n) == UNION {[1..k -> S] : k \in 0..n}

\* ------------------------------------------------------------ bounds
MaxPoints == 2        \* raw samples in a document of the service model
MaxWaypoints == 1     \* waypoints in a document
MaxMarkers == 3       \* MarkerManager.add_marker is offered while the list is shorter
MaxServiceMarkers == 1  \* GPXService.add_marker is offered while the list is shorter
MaxStraightPoints == 2  \* points of the tracks a bare MarkerManager is built on
MaxSeedWaypoints == 2   \* waypoints in a document of the seeding model
MaxAnalyzerPoints == 2  \* raw samples in a document of the analyzer model
MaxExtractPoints == 3   \* raw samples in a document of the track-point model
MaxGainLossSamples == 3 \* samples in an array given to the gain/loss stage
MaxFilterSamples == 20  \* samples in an array given to outlier removal and smoothing
MaxSampleCount == 55    \* sample counts for which the smoothing window is chosen
MaxConfiguredWindow == 60  \* values of settings.elevation_smoothing_window

\* ------------------------------------------------------------ messages
OK == "ok"
NoDataMsg == "No GPX data loaded"
NoTrackPointsMsg == "No track points found in GPX file"
GPXLoadError == "GPXLoadError"

START_NAME == "スタート"
GOAL_NAME == "ゴール"
DefaultWaypointName == "Waypoint"

\* ------------------------------------------------------------ inputs
Lons == {0}
Lon0 == CHOOSE l \in Lons : TRUE
ServiceLats == {0, 50}
UserNames == {"A"}

RawPoint(lat, ele) == [latitude |-> lat, longitude |-> Lon0, elevation |-> ele]

\* A document: gpx.tracks[t].segments[s].points[p], and gpx.waypoints.
MkDoc(tracks, waypoints) == [tracks |-> tracks, waypoints |-> waypoints]

\* ------------------------------------------------------------ geometry
\* GPXAnalyzer._haversine_distance, for two points of one meridian.
haversine_distance(lat1, lon1, lat2, lon2) == Abs(lat2 - lat1)

\* float("inf") of find_nearest_point: above every distance of the model.
Infinity == 2147483647

\* ------------------------------------------------------------ track model
RECURSIVE Concat(_)
Concat(ss) == IF ss = <<>> THEN <<>> ELSE Head(ss) \o Concat(Tail(ss))

\* The order in which the three nested loops of extract_track_points visit
\* the raw points: tracks, then segments, then points.
FlatPoints(g) == Concat([t \in 1..Len(g.tracks) |-> Concat(g.tracks[t])])

\* The distance to the previous point alone, not added to a running total.
CumulativeDistance_StepOnly(raw, i) ==
    IF i <= 1 THEN 0
    ELSE haversine_distance(raw[i - 1].latitude, raw[i - 1].longitude,
                            raw[i].latitude, raw[i].longitude)

\* cumulative_distance when the i-th visited point (1-based) is appended.
RECURSIVE CumulativeDistance(_, _)
CumulativeDistance(raw, i) ==
    IF i <= 1 THEN 0
    ELSE CumulativeDistance(raw, i - 1)
         + haversine_distance(raw[i - 1].latitude, raw[i - 1].longitude,
                              raw[i].latitude, raw[i].longitude)

\* point.elevation or 0.0
ElevationOrZero(e) == IF e = None THEN 0 ELSE Get(e)

\* The number of points in the tracks that end before the i-th visited point.
TrackOffset(g, i) ==
    LET ends == {Len(Concat([u \in 1..t |-> Concat(g.tracks[u])])) :
                    t \in 0..Len(g.tracks)}
    IN CHOOSE c \in ends : c < i /\ \A d \in ends : d < i => d <= c

\* The points with index counted from 0 again in every track.
BuildTrackPoints_IndexPerTrack(g) ==
    LET raw == FlatPoints(g)
    IN [i \in 1..Len(raw) |->
            [latitude |-> raw[i].latitude,
             longitude |-> raw[i].longitude,
             elevation |-> ElevationOrZero(raw[i].elevation),
             distance_from_start |-> CumulativeDistance(raw, i),
             index |-> i - 1 - TrackOffset(g, i)]]

BuildTrackPoints(g) ==
    LET raw == FlatPoints(g)
    IN [i \in 1..Len(raw) |->
            [latitude |-> raw[i].latitude,
             longitude |-> raw[i].longitude,
             elevation |-> ElevationOrZero(raw[i].elevation),
             distance_from_start |-> CumulativeDistance(raw, i),
             index |-> i - 1]]

\* GPXAnalyzer.__init__
NewAnalyzer(g) ==
    [gpx |-> g, track_points |-> None, dataframe |-> None,
     stats |-> None, waypoints |-> None]

\* extract_track_points storing its (empty) list before it raises.
extract_track_points_CacheBeforeRaise(a) ==
    IF a.track_points # None
    THEN [err |-> OK, ret |-> Get(a.track_points), analyzer |-> a]
    ELSE LET track_points == BuildTrackPoints(a.gpx)
         IN [err |-> IF track_points = <<>> THEN NoTrackPointsMsg ELSE OK,
             ret |-> track_points,
             analyzer |-> [a EXCEPT !.track_points = Some(track_points)]]

\* GPXAnalyzer.extract_track_points: [err, ret, analyzer]
extract_track_points(a) ==
    IF a.track_points # None
    THEN [err |-> OK, ret |-> Get(a.track_points), analyzer |-> a]
    ELSE LET track_points == BuildTrackPoints(a.gpx)
         IN IF track_points = <<>>
            THEN [err |-> NoTrackPointsMsg, ret |-> <<>>, analyzer |-> a]
            ELSE [err |-> OK, ret |-> track_points,
                  analyzer |-> [a EXCEPT !.track_points = Some(track_points)]]

\* GPXAnalyzer.extract_waypoints: [ret, analyzer]
extract_waypoints(a) ==
    IF a.waypoints # None
    THEN [ret |-> Get(a.waypoints), analyzer |-> a]
    ELSE LET w == a.gpx.waypoints
             waypoints == [i \in 1..Len(w) |->
                 [name |-> IF w[i].name = None \/ w[i].name = Some("")
                           THEN DefaultWaypointName ELSE Get(w[i].name),
                  latitude |-> w[i].latitude,
                  longitude |-> w[i].longitude]]
         IN [ret |-> waypoints,
             analyzer |-> [a EXCEPT !.waypoints = Some(waypoints)]]

\* The scan with <= for <: among equally near points the last one wins.
RECURSIVE NearestScan_LastWins(_, _, _, _, _, _)
NearestScan_LastWins(points, i, latitude, longitude, min_distance, nearest_point) ==
    IF i > Len(points) THEN nearest_point
    ELSE IF haversine_distance(latitude, longitude,
                               points[i].latitude, points[i].longitude) <= min_distance
    THEN NearestScan_LastWins(points, i + 1, latitude, longitude,
                              haversine_distance(latitude, longitude,
                                                 points[i].latitude, points[i].longitude),
                              points[i])
    ELSE NearestScan_LastWins(points, i + 1, latitude, longitude,
                              min_distance, nearest_point)

\* The scan of find_nearest_point from the i-th point on.
RECURSIVE NearestScan(_, _, _, _, _, _)
NearestScan(points, i, latitude, longitude, min_distance, nearest_point) ==
    IF i > Len(points) THEN nearest_point
    ELSE LET distance == haversine_distance(latitude, longitude,
                              points[i].latitude, points[i].longitude)
         IN IF distance < min_distance
            THEN NearestScan(points, i + 1, latitude, longitude, distance, points[i])
            ELSE NearestScan(points, i + 1, latitude, longitude, min_distance, nearest_point)

\* GPXAnalyzer.find_nearest_point: [err, ret, analyzer]
find_nearest_point(a, latitude, longitude) ==
    LET e == extract_track_points(a)
    IN IF e.err # OK THEN e
       ELSE [err |-> OK,
             ret |-> NearestScan(e.ret, 1, latitude, longitude, Infinity, e.ret[1]),
             analyzer |-> e.analyzer]

\* ------------------------------------------------------------ marker list
\* list.insert(position, x) and list.pop(position), positions 0-based.
ListInsert(ms, position, x) ==
    SubSeq(ms, 1, position) \o <<x>> \o SubSeq(ms, position + 1, Len(ms))

ListPop(ms, position) ==
    SubSeq(ms, 1, position) \o SubSeq(ms, position + 2, Len(ms))

\* The identity of a newly created Marker object: one no marker of the list has.
FreshOid(ms) ==
    CHOOSE o \in 0..Len(ms) :
        /\ \A i \in 1..Len(ms) : ms[i].oid # o
        /\ \A p \in 0..(o - 1) : \E i \in 1..Len(ms) : ms[i].oid = p

\* The renumbering loop left out.
RenumberFrom_Skipped(ms, start) == ms

\* for i in range(start, len(self.markers)): self.markers[i].index = i
RenumberFrom(ms, start) ==
    [k \in 1..Len(ms) |-> IF k - 1 >= start THEN [ms[k] EXCEPT !.index = k - 1] ELSE ms[k]]

\* Marker(...) as add_marker builds it for the nearest point.
Marker(name, track_point, index, oid) ==
    [name |-> name,
     latitude |-> track_point.latitude,
     longitude |-> track_point.longitude,
     track_point |-> track_point,
     index |-> index,
     oid |-> oid]

\* self.markers.insert(insert_position, marker) and the renumbering after it.
InsertMarker(ms, name, track_point, insert_position) ==
    RenumberFrom(ListInsert(ms, insert_position,
                            Marker(name, track_point, insert_position, FreshOid(ms))),
                 insert_position + 1)

\* add_marker once find_nearest_point has answered np.
AddMarkerAt(np, ms, name, insert_position) ==
    IF np.err # OK
    THEN [err |-> np.err, ret |-> None, analyzer |-> np.analyzer, markers |-> ms]
    ELSE [err |-> OK,
          ret |-> Some(Marker(name, np.ret, insert_position, FreshOid(ms))),
          analyzer |-> np.analyzer,
          markers |-> InsertMarker(ms, name, np.ret, insert_position)]

\* add_marker ignoring insert_before_last: the marker always appended.
MarkerManager_add_marker_AlwaysAppend(a, ms, name, latitude, longitude, insert_before_last) ==
    AddMarkerAt(find_nearest_point(a, latitude, longitude), ms, name, Len(ms))

\* MarkerManager.add_marker: [err, ret, analyzer, markers]
MarkerManager_add_marker(a, ms, name, latitude, longitude, insert_before_last) ==
    AddMarkerAt(find_nearest_point(a, latitude, longitude), ms, name,
                IF insert_before_last /\ Len(ms) >= 1 THEN Len(ms) - 1 ELSE Len(ms))

\* remove_marker guarded by `index < len(self.markers)` alone: a negative
\* index reaches list.pop, which counts it from the end.
MarkerManager_remove_marker_NoLowerBound(ms, index) ==
    IF index < Len(ms) /\ -Len(ms) <= index
    THEN RenumberFrom(ListPop(ms, IF index < 0 THEN Len(ms) + index ELSE index), 0)
    ELSE ms

\* MarkerManager.remove_marker: the list afterwards
MarkerManager_remove_marker(ms, index) ==
    IF 0 <= index /\ index < Len(ms)
    THEN RenumberFrom(ListPop(ms, index), 0)
    ELSE ms

\* MarkerManager.clear_markers
MarkerManager_clear_markers(ms) == <<>>

\* The exchange done on the bound points instead of the list entries: the
\* two Marker objects stay in place and trade track_point and coordinates.
ListSwap_PointsOnly(ms, i, j) ==
    [k \in 1..Len(ms) |->
        IF k = i + 1
        THEN [ms[k] EXCEPT !.track_point = ms[j + 1].track_point,
                           !.latitude = ms[j + 1].latitude,
                           !.longitude = ms[j + 1].longitude]
        ELSE IF k = j + 1
        THEN [ms[k] EXCEPT !.track_point = ms[i + 1].track_point,
                           !.latitude = ms[i + 1].latitude,
                           !.longitude = ms[i + 1].longitude]
        ELSE ms[k]]

\* The exchange written as two assignments without a temporary:
\* self.markers[i] = self.markers[j]; self.markers[j] = self.markers[i]
ListSwap_Overwrite(ms, i, j) ==
    [k \in 1..Len(ms) |-> IF k = i + 1 THEN ms[j + 1] ELSE ms[k]]

\* self.markers[i], self.markers[j] = self.markers[j], self.markers[i]  (0-based)
ListSwap(ms, i, j) ==
    [k \in 1..Len(ms) |-> IF k = i + 1 THEN ms[j + 1] ELSE IF k = j + 1 THEN ms[i + 1] ELSE ms[k]]

\* self.markers[i].index = i
SetIndex(ms, i) == [ms EXCEPT ![i + 1].index = i]

\* move_marker_up guarded by `index < 0`: index 0 exchanges with
\* self.markers[-1], the last marker.
MarkerManager_move_marker_up_AllowsZero(ms, index) ==
    IF index < 0 \/ index >= Len(ms)
    THEN [ret |-> FALSE, markers |-> ms]
    ELSE LET other == IF index = 0 THEN Len(ms) - 1 ELSE index - 1
         IN [ret |-> TRUE,
             markers |-> SetIndex(SetIndex(ListSwap(ms, index, other), other), index)]

\* MarkerManager.move_marker_up: [ret, markers]
MarkerManager_move_marker_up(ms, index) ==
    IF index <= 0 \/ index >= Len(ms)
    THEN [ret |-> FALSE, markers |-> ms]
    ELSE [ret |-> TRUE,
          markers |-> SetIndex(SetIndex(ListSwap(ms, index, index - 1), index - 1), index)]

\* MarkerManager.move_marker_down: [ret, markers]
MarkerManager_move_marker_down(ms, index) ==
    IF index < 0 \/ index >= Len(ms) - 1
    THEN [ret |-> FALSE, markers |-> ms]
    ELSE [ret |-> TRUE,
          markers |-> SetIndex(SetIndex(ListSwap(ms, index, index + 1), index), index + 1)]

\* ------------------------------------------------------------ exact arithmetic
\* A number of the elevation pipeline: the rational n/d in lowest terms, d > 0.
RECURSIVE GCD(_, _)
GCD(a, b) == IF b = 0 THEN a ELSE GCD(b, a % b)

Rat(n, d) ==
    LET s == IF d < 0 THEN -1 ELSE 1
        g == GCD(Abs(n), Abs(d))
    IN [n |-> (s * n) \div g, d |-> (s * d) \div g]

FromInt(i) == [n |-> i, d |-> 1]
RAdd(x, y) == Rat(x.n * y.d + y.n * x.d, x.d * y.d)
RSub(x, y) == Rat(x.n * y.d - y.n * x.d, x.d * y.d)
RMul(x, y) == Rat(x.n * y.n, x.d * y.d)
RDiv(x, y) == Rat(x.n * y.d, x.d * y.n)
RNeg(x) == [n |-> -x.n, d |-> x.d]
RAbs(x) == [n |-> Abs(x.n), d |-> x.d]
RLess(x, y) == x.n * y.d < y.n * x.d
RLeq(x, y) == x.n * y.d <= y.n * x.d

\* int(x): truncation towards zero
RTrunc(x) == IF x.n >= 0 THEN x.n \div x.d ELSE -((-x.n) \div x.d)
\* floor(x)
RFloor(x) == x.n \div x.d

RECURSIVE RSum(_)
RSum(s) == IF s = <<>> THEN FromInt(0) ELSE RAdd(Head(s), RSum(Tail(s)))

\* s[mask] of a numpy array s and a boolean array mask of its length
BooleanIndex(s, mask) ==
    LET F[i \in 0..Len(s)] ==
            IF i = 0 THEN <<>>
            ELSE IF mask[i] THEN Append(F[i - 1], s[i]) ELSE F[i - 1]
    IN F[Len(s)]

\* np.sort
RECURSIVE RInsertSorted(_, _)
RInsertSorted(x, s) ==
    IF s = <<>> THEN <<x>>
    ELSE IF RLeq(x, Head(s)) THEN <<x>> \o s
    ELSE <<Head(s)>> \o RInsertSorted(x, Tail(s))

RECURSIVE RSort(_)
RSort(s) == IF s = <<>> THEN <<>> ELSE RInsertSorted(Head(s), RSort(Tail(s)))

\* ------------------------------------------------------------ settings.py
elevation_smoothing_window == 5
elevation_threshold_meters == [n |-> 1, d |-> 2]
distance_resampling_meters == 10
min_distance_for_resampling == 100

\* The sample counts below which outlier removal and smoothing are skipped,
\* and below which smoothing uses the minimal window.
MinSamplesForFiltering == 20
MinSamplesForConfiguredWindow == 50

\* ------------------------------------------------------------ elevation pipeline
\* np.linspace(start, stop, num)
Linspace(start, stop, num) ==
    [k \in 1..num |->
        IF num = 1 THEN start
        ELSE RAdd(start, RMul(Rat(k - 1, num - 1), RSub(stop, start)))]

\* np.interp(x, xp, fp) for one x; xp non-decreasing.  j is the last position
\* with xp[j] <= x (0 when x is left of xp): left of xp the first value, at or
\* right of its end the last, in between the line through the neighbours.
LastAtOrBelow(x, xp) ==
    IF \A m \in 1..Len(xp) : ~RLeq(xp[m], x) THEN 0
    ELSE CHOOSE m \in 1..Len(xp) :
            RLeq(xp[m], x) /\ \A o \in (m + 1)..Len(xp) : ~RLeq(xp[o], x)

InterpFrom(x, xp, fp, j) ==
    IF j = 0 THEN fp[1]
    ELSE IF j = Len(xp) THEN fp[Len(xp)]
    ELSE RAdd(fp[j],
              RMul(RDiv(RSub(fp[j + 1], fp[j]), RSub(xp[j + 1], xp[j])),
                   RSub(x, xp[j])))

InterpAt(x, xp, fp) == InterpFrom(x, xp, fp, LastAtOrBelow(x, xp))

Interp(xs, xp, fp) == [k \in 1..Len(xs) |-> InterpAt(xs[k], xp, fp)]

\* num_samples = int(total_distance / interval) + 1
NumSamples(total_distance, interval) ==
    RTrunc(RDiv(total_distance, FromInt(interval))) + 1

\* The resampled pair for the grid new_distances.
ResampleOnto(new_distances, distances, elevations) ==
    [distances |-> new_distances,
     elevations |-> Interp(new_distances, distances, elevations)]

\* GPXAnalyzer._resample_by_distance: [distances, elevations]
resample_by_distance(distances, elevations, interval) ==
    IF Len(distances) < 2 \/ Len(elevations) < 2
    THEN [distances |-> distances, elevations |-> elevations]
    ELSE ResampleOnto(Linspace(FromInt(0), distances[Len(distances)],
                               NumSamples(distances[Len(distances)], interval)),
                      distances, elevations)

\* np.percentile(a, q), linear interpolation between the two closest ranks:
\* the value at fractional rank pos of the sorted array s.
AtRank(s, pos) ==
    IF RFloor(pos) + 2 > Len(s) THEN s[RFloor(pos) + 1]
    ELSE RAdd(s[RFloor(pos) + 1],
              RMul(RSub(pos, FromInt(RFloor(pos))),
                   RSub(s[RFloor(pos) + 2], s[RFloor(pos) + 1])))

Percentile(a, q) == AtRank(RSort(a), Rat((Len(a) - 1) * q, 100))

\* elevations with every value outside [lower_bound, upper_bound] replaced
\* by np.interp over the positions of the values inside.
InterpolateOutliers(elevations, lower_bound, upper_bound) ==
    LET outlier(i) == RLess(elevations[i], lower_bound) \/ RLess(upper_bound, elevations[i])
        good == [i \in 1..Len(elevations) |-> ~outlier(i)]
        indices == [i \in 1..Len(elevations) |-> FromInt(i - 1)]
    IN IF (\E i \in 1..Len(elevations) : outlier(i))
          /\ (\E i \in 1..Len(elevations) : ~outlier(i))
       THEN [i \in 1..Len(elevations) |->
               IF outlier(i)
               THEN InterpAt(indices[i], BooleanIndex(indices, good),
                             BooleanIndex(elevations, good))
               ELSE elevations[i]]
       ELSE elevations

\* lower_bound = q1 - 1.5 * iqr, upper_bound = q3 + 1.5 * iqr
OutsideFences(elevations, q1, q3) ==
    InterpolateOutliers(elevations,
                        RSub(q1, RMul(Rat(3, 2), RSub(q3, q1))),
                        RAdd(q3, RMul(Rat(3, 2), RSub(q3, q1))))

\* Outlier removal skipped only for arrays of fewer than 2 samples.
remove_outliers_ShortGuard(elevations) ==
    IF Len(elevations) < 2 THEN elevations
    ELSE OutsideFences(elevations, Percentile(elevations, 25), Percentile(elevations, 75))

\* GPXAnalyzer._remove_outliers
remove_outliers(elevations) ==
    IF Len(elevations) < MinSamplesForFiltering THEN elevations
    ELSE OutsideFences(elevations, Percentile(elevations, 25), Percentile(elevations, 75))

\* The window length without the step that makes an even one odd.
SmoothingWindow_EvenKept(n, configured) ==
    IF n < MinSamplesForFiltering THEN 0
    ELSE LET w1 == IF n < MinSamplesForConfiguredWindow THEN 3
                   ELSE IF n < configured THEN (IF n % 2 = 1 THEN n ELSE n - 1)
                   ELSE configured
         IN IF w1 < 3 THEN 0 ELSE w1

\* The window length _smooth_elevation_advanced filters with; 0 when it
\* returns its input without filtering.
SmoothingWindow(n, configured) ==
    IF n < MinSamplesForFiltering THEN 0
    ELSE LET w1 == IF n < MinSamplesForConfiguredWindow THEN 3
                   ELSE IF n < configured THEN (IF n % 2 = 1 THEN n ELSE n - 1)
                   ELSE configured
         IN IF w1 < 3 THEN 0
            ELSE IF w1 % 2 = 0 THEN w1 - 1 ELSE w1

\* scipy.signal.savgol_coeffs(window, 2): the weight of the sample at offset i
\* from the centre in the least-squares quadratic fit over window = 2m+1 samples.
SavgolCoeff(m, i) ==
    Rat(3 * (3 * m * m + 3 * m - 1) - 15 * i * i, (2 * m + 3) * (2 * m + 1) * (2 * m - 1))

\* scipy.signal.savgol_filter(x, window, 2, mode="nearest"): the weights
\* applied around every sample, the array extended by its edge values.
SavgolFilter(x, window) ==
    LET m == (window - 1) \div 2
        at(k) == IF k < 1 THEN x[1] ELSE IF k > Len(x) THEN x[Len(x)] ELSE x[k]
    IN [k \in 1..Len(x) |->
            RSum([j \in 1..window |-> RMul(SavgolCoeff(m, j - 1 - m), at(k + j - 1 - m))])]

\* GPXAnalyzer._smooth_elevation_advanced
smooth_elevation_advanced(elevations) ==
    LET window_length == SmoothingWindow(Len(elevations), elevation_smoothing_window)
    IN IF window_length = 0 THEN elevations
       ELSE SavgolFilter(elevations, window_length)

\* np.diff
Diff(e) == [i \in 1..(Len(e) - 1) |-> RSub(e[i + 1], e[i])]

\* The sums with >= and <= for > and <: a difference equal to the threshold
\* is counted.
GainLoss_AtThreshold(elevation_diffs, threshold) ==
    LET up == [i \in 1..Len(elevation_diffs) |-> RLeq(threshold, elevation_diffs[i])]
        down == [i \in 1..Len(elevation_diffs) |->
                    RLeq(elevation_diffs[i], RNeg(threshold))]
    IN [ascent |-> RSum(BooleanIndex(elevation_diffs, up)),
        descent |-> RAbs(RSum(BooleanIndex(elevation_diffs, down)))]

\* The sums over the differences beyond the threshold.
GainLoss(elevation_diffs, threshold) ==
    LET up == [i \in 1..Len(elevation_diffs) |-> RLess(threshold, elevation_diffs[i])]
        down == [i \in 1..Len(elevation_diffs) |->
                    RLess(elevation_diffs[i], RNeg(threshold))]
    IN [ascent |-> RSum(BooleanIndex(elevation_diffs, up)),
        descent |-> RAbs(RSum(BooleanIndex(elevation_diffs, down)))]

\* GPXAnalyzer._calculate_elevation_gain_loss: [ascent, descent]
calculate_elevation_gain_loss(elevations, threshold) ==
    IF Len(elevations) < 2
    THEN [ascent |-> FromInt(0), descent |-> FromInt(0)]
    ELSE GainLoss(Diff(elevations), threshold)

\* Step 1: resampled_elevations, resampled only when total exceeds the
\* minimum distance.
ResampleStep(distances, elevations, total) ==
    IF RLess(FromInt(min_distance_for_resampling), total)
    THEN resample_by_distance(distances, elevations,
                              distance_resampling_meters).elevations
    ELSE elevations

\* Steps 1-4 shared by calculate_stats and get_segment_between_points:
\* resampling when total exceeds the minimum, then outlier removal,
\* smoothing and the threshold filter.
ElevationPipeline(distances, elevations, total) ==
    calculate_elevation_gain_loss(
        smooth_elevation_advanced(
            remove_outliers(ResampleStep(distances, elevations, total))),
        elevation_threshold_meters)

\* ------------------------------------------------------------ analyzer
ToRats(ints) == [i \in 1..Len(ints) |-> FromInt(ints[i])]

\* The columns of the polars DataFrame built by get_dataframe.
DataFrame(points) ==
    [latitude |-> [i \in 1..Len(points) |-> points[i].latitude],
     longitude |-> [i \in 1..Len(points) |-> points[i].longitude],
     elevation |-> [i \in 1..Len(points) |-> points[i].elevation],
     distance |-> [i \in 1..Len(points) |-> points[i].distance_from_start],
     index |-> [i \in 1..Len(points) |-> points[i].index]]

\* The analyzer with its DataFrame cached.
CacheDataFrame(a, df) ==
    [err |-> OK, ret |-> Some(df), analyzer |-> [a EXCEPT !.dataframe = Some(df)]]

\* GPXAnalyzer.get_dataframe: [err, ret, analyzer]
get_dataframe(a) ==
    IF a.dataframe # None
    THEN [err |-> OK, ret |-> a.dataframe, analyzer |-> a]
    ELSE LET e == extract_track_points(a)
         IN IF e.err # OK
            THEN [err |-> e.err, ret |-> None, analyzer |-> a]
            ELSE CacheDataFrame(e.analyzer, DataFrame(e.ret))

\* np.min / np.max of a non-empty integer array
\* The first value of the array taken for its minimum.
ArrayMin_First(s) == s[1]

ArrayMin(s) == CHOOSE x \in Range(s) : \A y \in Range(s) : x <= y
ArrayMax(s) == CHOOSE x \in Range(s) : \A y \in Range(s) : y <= x

\* GPXStats(...) as calculate_stats fills it in.
GPXStats(points, df, gain_loss) ==
    [total_distance |-> points[Len(points)].distance_from_start,
     total_ascent |-> gain_loss.ascent,
     total_descent |-> gain_loss.descent,
     min_elevation |-> ArrayMin(df.elevation),
     max_elevation |-> ArrayMax(df.elevation),
     total_points |-> Len(points)]

\* The GPXStats that calculate_stats builds from the points and the DataFrame.
ComputeStats(points, df) ==
    GPXStats(points, df,
             ElevationPipeline(ToRats(df.distance), ToRats(df.elevation),
                               IF Len(df.distance) > 0
                               THEN FromInt(df.distance[Len(df.distance)])
                               ELSE FromInt(0)))

\* The statistics returned without being stored in self._stats.
CacheStats_NotStored(a, stats) ==
    [err |-> OK, ret |-> Some(stats), analyzer |-> a]

\* The analyzer with its statistics cached.
CacheStats(a, stats) ==
    [err |-> OK, ret |-> Some(stats), analyzer |-> [a EXCEPT !.stats = Some(stats)]]

\* calculate_stats once the points and the DataFrame are there.
StatsFrom(e, d) ==
    IF e.err # OK
    THEN [err |-> e.err, ret |-> None, analyzer |-> e.analyzer]
    ELSE CacheStats(d.analyzer, ComputeStats(e.ret, Get(d.ret)))

\* GPXAnalyzer.calculate_stats: [err, ret, analyzer]
calculate_stats(a) ==
    IF a.stats # None
    THEN [err |-> OK, ret |-> a.stats, analyzer |-> a]
    ELSE StatsFrom(extract_track_points(a), get_dataframe(a))

\* points[: hi], the slice taken from the first point of the track.
PySlice_FromStart(points, lo, hi) ==
    SubSeq(points, 1, IF hi < Len(points) THEN hi ELSE Len(points))

\* points[lo : hi] of a Python list, 0 <= lo
PySlice(points, lo, hi) ==
    SubSeq(points, lo + 1, IF hi < Len(points) THEN hi ELSE Len(points))

\* The tuple with ascent and descent exchanged.
SegmentTuple_Swapped(segment, distance, gain_loss) ==
    [track_points |-> segment, distance |-> Abs(distance),
     ascent |-> gain_loss.descent, descent |-> gain_loss.ascent]

\* (segment_points, abs(distance), ascent, descent)
SegmentTuple(segment, distance, gain_loss) ==
    [track_points |-> segment, distance |-> Abs(distance),
     ascent |-> gain_loss.ascent, descent |-> gain_loss.descent]

\* distances_segment: the distances of the slice counted from start_point,
\* the point the caller passed first.
SegmentDistances(segment, start_point) ==
    [i \in 1..Len(segment) |->
        FromInt(segment[i].distance_from_start - start_point.distance_from_start)]

\* elevations: the elevations of the slice.
SegmentElevations(segment) ==
    [i \in 1..Len(segment) |-> FromInt(segment[i].elevation)]

\* The tuple for the slice `segment`, its distances taken from start_point.
SegmentOf(segment, start_point, end_point) ==
    SegmentTuple(segment,
        end_point.distance_from_start - start_point.distance_from_start,
        ElevationPipeline(
            SegmentDistances(segment, start_point),
            SegmentElevations(segment),
            FromInt(Abs(end_point.distance_from_start - start_point.distance_from_start))))

\* The tuple get_segment_between_points returns for the cached points.
SegmentBetween(points, start_point, end_point) ==
    LET start_idx == IF start_point.index > end_point.index
                     THEN end_point.index ELSE start_point.index
        end_idx == IF start_point.index > end_point.index
                   THEN start_point.index ELSE end_point.index
    IN SegmentOf(PySlice(points, start_idx, end_idx + 1), start_point, end_point)

\* GPXAnalyzer.get_segment_between_points: [err, ret, analyzer]
get_segment_between_points(a, start_point, end_point) ==
    LET e == extract_track_points(a)
    IN IF e.err # OK
       THEN [err |-> e.err, ret |-> None, analyzer |-> a]
       ELSE [err |-> OK, ret |-> Some(SegmentBetween(e.ret, start_point, end_point)),
             analyzer |-> e.analyzer]

\* ------------------------------------------------------------ segments
\* get_marker without the lower bound: a negative index counts from the end,
\* as Python's list indexing does.
MarkerManager_get_marker_NoLowerBound(ms, index) ==
    IF index < Len(ms) /\ index >= -Len(ms)
    THEN Some(ms[(index % Len(ms)) + 1]) ELSE None

\* MarkerManager.get_marker
MarkerManager_get_marker(ms, index) ==
    IF 0 <= index /\ index < Len(ms) THEN Some(ms[index + 1]) ELSE None

\* MarkerManager.get_all_markers
MarkerManager_get_all_markers(ms) == ms

\* avg_gradient as the plain ratio, the factor 100 left out.
AvgGradient_NoPercent(ascent, distance) ==
    IF distance > 0 THEN RDiv(ascent, FromInt(distance)) ELSE FromInt(0)

\* avg_gradient = (ascent / distance * 100) if distance > 0 else 0.0
AvgGradient(ascent, distance) ==
    IF distance > 0 THEN RMul(RDiv(ascent, FromInt(distance)), FromInt(100)) ELSE FromInt(0)

\* Segment(...) as get_segment fills it in from the analyzer's tuple r.
Segment(start_marker, end_marker, r) ==
    IF r.err # OK THEN r
    ELSE [err |-> OK,
          ret |-> Some([start_marker |-> start_marker,
                        end_marker |-> end_marker,
                        distance |-> Get(r.ret).distance,
                        ascent |-> Get(r.ret).ascent,
                        descent |-> Get(r.ret).descent,
                        track_points |-> Get(r.ret).track_points,
                        avg_gradient |-> AvgGradient(Get(r.ret).ascent,
                                                     Get(r.ret).distance)]),
          analyzer |-> r.analyzer]

\* MarkerManager.get_segment: [err, ret, analyzer]
MarkerManager_get_segment(a, ms, start_index, end_index) ==
    IF MarkerManager_get_marker(ms, start_index) = None
       \/ MarkerManager_get_marker(ms, end_index) = None
    THEN [err |-> OK, ret |-> None, analyzer |-> a]
    ELSE Segment(Get(MarkerManager_get_marker(ms, start_index)),
                 Get(MarkerManager_get_marker(ms, end_index)),
                 get_segment_between_points(
                     a, Get(MarkerManager_get_marker(ms, start_index)).track_point,
                     Get(MarkerManager_get_marker(ms, end_index)).track_point))

\* The loop of get_all_segments from pair i on (0-based), segments so far in acc.
RECURSIVE AllSegmentsFrom(_, _, _, _)
RECURSIVE AppendSegment(_, _, _, _)
AllSegmentsFrom(a, ms, i, acc) ==
    IF i >= Len(ms) - 1 THEN [err |-> OK, ret |-> acc, analyzer |-> a]
    ELSE AppendSegment(ms, i, acc, MarkerManager_get_segment(a, ms, i, i + 1))

\* if segment: segments.append(segment), and the loop goes on
AppendSegment(ms, i, acc, r) ==
    IF r.err # OK THEN [err |-> r.err, ret |-> <<>>, analyzer |-> r.analyzer]
    ELSE AllSegmentsFrom(r.analyzer, ms, i + 1,
                         IF r.ret # None THEN Append(acc, Get(r.ret)) ELSE acc)

\* get_all_segments with its loop starting at the second marker.
MarkerManager_get_all_segments_FromSecond(a, ms) == AllSegmentsFrom(a, ms, 1, <<>>)

\* MarkerManager.get_all_segments: [err, ret, analyzer]
MarkerManager_get_all_segments(a, ms) == AllSegmentsFrom(a, ms, 0, <<>>)

\* The rows of the DataFrame get_segments_dataframe builds.
SegmentsDataFrame(segments) ==
    [i \in 1..Len(segments) |->
        [segment |-> i,
         start |-> segments[i].start_marker.name,
         end |-> segments[i].end_marker.name,
         distance_km |-> Rat(segments[i].distance, 1000),
         ascent_m |-> segments[i].ascent,
         descent_m |-> segments[i].descent,
         gradient_pct |-> segments[i].avg_gradient]]

\* ------------------------------------------------------------ loader
max_gpx_file_size_mb == 50

\* GPXLoader.load_from_file: [err, ret].  A file is its size in MB, whether
\* its bytes decode as UTF-8, and the document gpxpy parses from it (None
\* when gpxpy rejects it).
GPXLoader_load_from_file(file) ==
    IF file.size_mb > max_gpx_file_size_mb THEN [err |-> GPXLoadError, ret |-> None]
    ELSE IF ~file.utf8 THEN [err |-> GPXLoadError, ret |-> None]
    ELSE IF file.gpx = None THEN [err |-> GPXLoadError, ret |-> None]
    ELSE [err |-> OK, ret |-> file.gpx]

\* GPXLoader.load_from_url: [err, ret].  A URL is whether the request
\* succeeds, the size of the response and the document parsed from it.
GPXLoader_load_from_url(url) ==
    IF ~url.reachable THEN [err |-> GPXLoadError, ret |-> None]
    ELSE IF url.size_mb > max_gpx_file_size_mb THEN [err |-> GPXLoadError, ret |-> None]
    ELSE IF url.gpx = None THEN [err |-> GPXLoadError, ret |-> None]
    ELSE [err |-> OK, ret |-> url.gpx]

\* ------------------------------------------------------------ service
\* The loop over the waypoints in _load_waypoints_as_markers, from the i-th on.
RECURSIVE AddWaypointMarkers(_, _, _, _)
RECURSIVE NextWaypointMarker(_, _, _)
AddWaypointMarkers(a, ms, waypoints, i) ==
    IF i > Len(waypoints) THEN [err |-> OK, analyzer |-> a, markers |-> ms]
    ELSE NextWaypointMarker(waypoints, i,
            MarkerManager_add_marker(a, ms, waypoints[i].name,
                waypoints[i].latitude, waypoints[i].longitude, FALSE))

\* The loop going on after the add_marker that answered r.
NextWaypointMarker(waypoints, i, r) ==
    AddWaypointMarkers(r.analyzer, r.markers, waypoints, i + 1)

\* The goal marker added the way the UI adds markers, insert_before_last=True.
AddGoalMarker_BeforeLast(a, ms, track_points) ==
    MarkerManager_add_marker(a, ms, GOAL_NAME,
        track_points[Len(track_points)].latitude,
        track_points[Len(track_points)].longitude, TRUE)

\* The marker add_marker is asked for at the end of the track.
AddGoalMarker(a, ms, track_points) ==
    MarkerManager_add_marker(a, ms, GOAL_NAME,
        track_points[Len(track_points)].latitude,
        track_points[Len(track_points)].longitude, FALSE)

\* if len(track_points) > 1: the goal marker after the waypoint markers m.
SeedGoal(track_points, m) ==
    IF Len(track_points) > 1
    THEN AddGoalMarker(m.analyzer, m.markers, track_points)
    ELSE m

\* The waypoint markers after the start marker, which add_marker answered s.
SeedWaypoints(s, w) == AddWaypointMarkers(w.analyzer, s.markers, w.ret, 1)

\* The markers seeded after the start marker.
SeedAfterStart(track_points, s) ==
    SeedGoal(track_points, SeedWaypoints(s, extract_waypoints(s.analyzer)))

\* The markers seeded for the track points extract_track_points answered e.
SeedMarkers(e, ms) ==
    SeedAfterStart(e.ret,
        MarkerManager_add_marker(e.analyzer, ms, START_NAME,
                                 e.ret[1].latitude, e.ret[1].longitude, FALSE))

\* [err, analyzer, markers] of a seeding that went through.
Seeded(g) == [err |-> OK, analyzer |-> g.analyzer, markers |-> g.markers]

\* GPXService._load_waypoints_as_markers on a new analyzer and an empty
\* marker manager: [err, analyzer, markers]
load_waypoints_as_markers(a, ms) ==
    IF extract_track_points(a).err # OK
    THEN [err |-> extract_track_points(a).err, analyzer |-> a, markers |-> ms]
    ELSE Seeded(SeedMarkers(extract_track_points(a), ms))

\* GPXService.is_loaded
is_loaded == gpx # None

Call(op, args, ret, err) == [op |-> op, args |-> args, ret |-> ret, err |-> err]

\* A call that raises before it touches the service.
Raises(op, args, err) ==
    /\ last' = Call(op, args, None, err)
    /\ before' = markers
    /\ UNCHANGED <<gpx, analyzer, markers, load_succeeded>>

\* A load that keeps the marker manager it finds when that one holds markers.
Assign_KeepsMarkers(op, source, document, r) ==
    /\ gpx' = document
    /\ analyzer' = Some(r.analyzer)
    /\ markers' = IF markers # None /\ markers # Some(<<>>) THEN markers ELSE Some(r.markers)
    /\ last' = Call(op, <<source>>, None, r.err)
    /\ before' = markers
    /\ load_succeeded' = (load_succeeded \/ r.err = OK)

\* The three assignments of a load and what _load_waypoints_as_markers, which
\* answered r, made of the new analyzer and marker manager.
Assign(op, source, document, r) ==
    /\ gpx' = document
    /\ analyzer' = Some(r.analyzer)
    /\ markers' = Some(r.markers)
    /\ last' = Call(op, <<source>>, None, r.err)
    /\ before' = markers
    /\ load_succeeded' = (load_succeeded \/ r.err = OK)

\* A load that empties the service before it asks the loader, so that a
\* loader error leaves nothing behind.
LoadInto_ClearsFirst(op, source, loaded) ==
    IF loaded.err # OK
    THEN /\ gpx' = None
         /\ analyzer' = None
         /\ markers' = None
         /\ last' = Call(op, <<source>>, None, loaded.err)
         /\ before' = markers
         /\ UNCHANGED load_succeeded
    ELSE Assign(op, source, loaded.ret,
                load_waypoints_as_markers(NewAnalyzer(Get(loaded.ret)), <<>>))

\* The body shared by load_from_file and load_from_url once the loader has
\* answered: the three assignments, then _load_waypoints_as_markers.
LoadInto(op, source, loaded) ==
    IF loaded.err # OK THEN Raises(op, <<source>>, loaded.err)
    ELSE Assign(op, source, loaded.ret,
                load_waypoints_as_markers(NewAnalyzer(Get(loaded.ret)), <<>>))

\* A service call that only reads through the analyzer (which may cache).
AnalyzerCall(op, args, r) ==
    /\ analyzer' = Some(r.analyzer)
    /\ last' = Call(op, args, r.ret, r.err)
    /\ before' = markers
    /\ UNCHANGED <<gpx, markers, load_succeeded>>

\* A service call that replaces the marker list.
MarkerCall(op, args, ret, ms) ==
    /\ markers' = Some(ms)
    /\ last' = Call(op, args, ret, OK)
    /\ before' = markers
    /\ UNCHANGED <<gpx, analyzer, load_succeeded>>

\* ------------------------------------------------------------ inputs of the service
\* No track; a track without sub-segments; a track whose only sub-segment is empty.
EmptyTracks == { <<>>, << <<>> >>, << << <<>> >> >> }

ServiceElevations == {Some(0)}
ServicePoints == {RawPoint(lat, ele) : lat \in ServiceLats, ele \in ServiceElevations}
ServiceTracks ==
    EmptyTracks \cup { << <<pts>> >> : pts \in SeqsUpTo(ServicePoints, MaxPoints) \ {<<>>} }

WaypointNames == {None, Some("W")}
WaypointLats == {25}
RawWaypoints == [name : WaypointNames, latitude : WaypointLats, longitude : Lons]
ServiceDocs ==
    {MkDoc(t, w) : t \in ServiceTracks, w \in SeqsUpTo(RawWaypoints, MaxWaypoints)}

EmptyDoc == MkDoc(<<>>, <<>>)
GoodFiles == {[size_mb |-> 1, utf8 |-> TRUE, gpx |-> Some(d)] : d \in ServiceDocs}
BadFiles == {[size_mb |-> 51, utf8 |-> TRUE, gpx |-> Some(EmptyDoc)],
             [size_mb |-> 1, utf8 |-> FALSE, gpx |-> None],
             [size_mb |-> 1, utf8 |-> TRUE, gpx |-> None]}
Files == GoodFiles \cup BadFiles

UrlDocs == {d \in ServiceDocs : d.waypoints = <<>> /\ Len(FlatPoints(d)) <= 1}
GoodUrls == {[reachable |-> TRUE, size_mb |-> 1, gpx |-> Some(d)] : d \in UrlDocs}
BadUrls == {[reachable |-> FALSE, size_mb |-> 0, gpx |-> None],
            [reachable |-> TRUE, size_mb |-> 51, gpx |-> Some(EmptyDoc)],
            [reachable |-> TRUE, size_mb |-> 1, gpx |-> None]}
Urls == GoodUrls \cup BadUrls

QueryLats == ServiceLats \cup {25}
ServiceQueryLats == {25}
ServiceIndexArgs == {-1, 0, 1}
ServiceSegmentArgs == {<<0, 1>>, <<1, 0>>, <<-1, 0>>}
IndexArgs == (-1)..MaxMarkers

\* ------------------------------------------------------------ service actions
GPXService_load_from_file ==
    \E file \in Files : LoadInto("load_from_file", file, GPXLoader_load_from_file(file))

GPXService_load_from_url ==
    \E url \in Urls : LoadInto("load_from_url", url, GPXLoader_load_from_url(url))

GPXService_reset ==
    /\ gpx' = None
    /\ analyzer' = None
    /\ markers' = None
    /\ last' = Call("reset", <<>>, None, OK)
    /\ before' = markers
    /\ load_succeeded' = FALSE

GPXService_get_stats ==
    IF analyzer = None THEN Raises("get_stats", <<>>, NoDataMsg)
    ELSE AnalyzerCall("get_stats", <<>>, calculate_stats(Get(analyzer)))

GPXService_get_track_dataframe ==
    IF analyzer = None THEN Raises("get_track_dataframe", <<>>, NoDataMsg)
    ELSE AnalyzerCall("get_track_dataframe", <<>>, get_dataframe(Get(analyzer)))

GPXService_add_marker ==
    \E name \in UserNames, latitude \in ServiceQueryLats, longitude \in Lons,
       insert_before_last \in BOOLEAN :
        IF markers = None
        THEN Raises("add_marker", <<name, latitude, longitude, insert_before_last>>, NoDataMsg)
        ELSE /\ Len(Get(markers)) < MaxServiceMarkers
             /\ LET r == MarkerManager_add_marker(Get(analyzer), Get(markers), name,
                                                  latitude, longitude, insert_before_last)
                IN /\ analyzer' = Some(r.analyzer)
                   /\ markers' = Some(r.markers)
                   /\ last' = Call("add_marker",
                                   <<name, latitude, longitude, insert_before_last>>,
                                   None, r.err)
                   /\ before' = markers
                   /\ UNCHANGED <<gpx, load_succeeded>>

GPXService_remove_marker ==
    \E index \in ServiceIndexArgs :
        IF markers = None THEN Raises("remove_marker", <<index>>, NoDataMsg)
        ELSE MarkerCall("remove_marker", <<index>>, None,
                        MarkerManager_remove_marker(Get(markers), index))

GPXService_clear_markers ==
    IF markers = None THEN Raises("clear_markers", <<>>, NoDataMsg)
    ELSE MarkerCall("clear_markers", <<>>, None, MarkerManager_clear_markers(Get(markers)))

GPXService_get_markers ==
    IF markers = None THEN Raises("get_markers", <<>>, NoDataMsg)
    ELSE MarkerCall("get_markers", <<>>, MarkerManager_get_all_markers(Get(markers)),
                    Get(markers))

GPXService_get_segments ==
    IF markers = None THEN Raises("get_segments", <<>>, NoDataMsg)
    ELSE AnalyzerCall("get_segments", <<>>,
                      MarkerManager_get_all_segments(Get(analyzer), Get(markers)))

GPXService_get_segment ==
    \E pair \in ServiceSegmentArgs :
        IF markers = None THEN Raises("get_segment", pair, NoDataMsg)
        ELSE AnalyzerCall("get_segment", pair,
                          MarkerManager_get_segment(Get(analyzer), Get(markers),
                                                    pair[1], pair[2]))

\* get_segments_dataframe from the segments get_segments answered r.
AsSegmentsDataFrame(r) ==
    [err |-> r.err, ret |-> SegmentsDataFrame(r.ret), analyzer |-> r.analyzer]

GPXService_get_segments_dataframe ==
    IF markers = None THEN Raises("get_segments_dataframe", <<>>, NoDataMsg)
    ELSE AnalyzerCall("get_segments_dataframe", <<>>,
            AsSegmentsDataFrame(MarkerManager_get_all_segments(Get(analyzer), Get(markers))))

GPXService_move_marker_up ==
    \E index \in ServiceIndexArgs :
        IF markers = None THEN Raises("move_marker_up", <<index>>, NoDataMsg)
        ELSE LET r == MarkerManager_move_marker_up(Get(markers), index)
             IN MarkerCall("move_marker_up", <<index>>, r.ret, r.markers)

GPXService_move_marker_down ==
    \E index \in ServiceIndexArgs :
        IF markers = None THEN Raises("move_marker_down", <<index>>, NoDataMsg)
        ELSE LET r == MarkerManager_move_marker_down(Get(markers), index)
             IN MarkerCall("move_marker_down", <<index>>, r.ret, r.markers)

\* GPXService.__init__
Init ==
    /\ gpx = None
    /\ analyzer = None
    /\ markers = None
    /\ last = Call("init", <<>>, None, OK)
    /\ before = None
    /\ load_succeeded = FALSE

Next ==
    \/ GPXService_load_from_file
    \/ GPXService_load_from_url
    \/ GPXService_reset
    \/ GPXService_get_stats
    \/ GPXService_get_track_dataframe
    \/ GPXService_add_marker
    \/ GPXService_remove_marker
    \/ GPXService_clear_markers
    \/ GPXService_get_markers
    \/ GPXService_get_segments
    \/ GPXService_get_segment
    \/ GPXService_get_segments_dataframe
    \/ GPXService_move_marker_up
    \/ GPXService_move_marker_down

Spec == Init /\ [][Next]_vars

\* ------------------------------------------------------------ marker manager alone
\* A MarkerManager built on the analyzer of a straight track of n points,
\* 50 m apart (n = 0: a track whose only sub-segment is empty).
StraightDoc(n) ==
    MkDoc(<< << [i \in 1..n |-> RawPoint(50 * (i - 1), Some(0))] >> >>, <<>>)
StraightDocs == {StraightDoc(n) : n \in 0..MaxStraightPoints}

\* A track of n points 50 m apart that climbs 15 m from each point to the next.
ClimbingDoc(n) ==
    MkDoc(<< << [i \in 1..n |-> RawPoint(50 * (i - 1), Some(15 * (i - 1)))] >> >>, <<>>)

MM_add_marker ==
    \E name \in UserNames, latitude \in QueryLats, longitude \in Lons,
       insert_before_last \in BOOLEAN :
        /\ Len(Get(markers)) < MaxMarkers
        /\ LET r == MarkerManager_add_marker(Get(analyzer), Get(markers), name,
                                             latitude, longitude, insert_before_last)
           IN /\ analyzer' = Some(r.analyzer)
              /\ markers' = Some(r.markers)
              /\ last' = Call("add_marker",
                              <<name, latitude, longitude, insert_before_last>>,
                              r.ret, r.err)
        /\ before' = markers
        /\ UNCHANGED <<gpx, load_succeeded>>

MM_remove_marker ==
    \E index \in IndexArgs :
        MarkerCall("remove_marker", <<index>>, None,
                   MarkerManager_remove_marker(Get(markers), index))

MM_clear_markers ==
    MarkerCall("clear_markers", <<>>, None, MarkerManager_clear_markers(Get(markers)))

MM_move_marker_up ==
    \E index \in IndexArgs :
        LET r == MarkerManager_move_marker_up(Get(markers), index)
        IN MarkerCall("move_marker_up", <<index>>, r.ret, r.markers)

MM_move_marker_down ==
    \E index \in IndexArgs :
        LET r == MarkerManager_move_marker_down(Get(markers), index)
        IN MarkerCall("move_marker_down", <<index>>, r.ret, r.markers)

MM_get_all_segments ==
    AnalyzerCall("get_all_segments", <<>>,
                 MarkerManager_get_all_segments(Get(analyzer), Get(markers)))

\* MarkerManager.__init__ on GPXAnalyzer(gpx)
InitMarkerManager ==
    \E d \in StraightDocs :
        /\ gpx = Some(d)
        /\ analyzer = Some(NewAnalyzer(d))
        /\ markers = Some(<<>>)
        /\ last = Call("init", <<>>, None, OK)
        /\ before = Some(<<>>)
        /\ load_succeeded = FALSE

NextMarkerManager ==
    \/ MM_add_marker
    \/ MM_remove_marker
    \/ MM_clear_markers
    \/ MM_move_marker_up
    \/ MM_move_marker_down
    \/ MM_get_all_segments

SpecMarkerManager == InitMarkerManager /\ [][NextMarkerManager]_vars

\* ---------------------------------------------------------------------------
\* The segment between two markers: a MarkerManager on a climbing track, its
\* list built by add_marker in both modes and read by get_segment.
\* ---------------------------------------------------------------------------

SG_add_marker ==
    \E name \in UserNames, longitude \in Lons, insert_before_last \in BOOLEAN,
       latitude \in {50 * (i - 1) : i \in 1..MaxStraightPoints} :
        /\ Len(Get(markers)) < MaxMarkers
        /\ LET r == MarkerManager_add_marker(Get(analyzer), Get(markers), name,
                                             latitude, longitude, insert_before_last)
           IN /\ analyzer' = Some(r.analyzer)
              /\ markers' = Some(r.markers)
              /\ last' = Call("add_marker",
                              <<name, latitude, longitude, insert_before_last>>,
                              r.ret, r.err)
        /\ before' = markers
        /\ UNCHANGED <<gpx, load_succeeded>>

SG_get_segment ==
    \E start_index \in IndexArgs, end_index \in IndexArgs :
        AnalyzerCall("get_segment", <<start_index, end_index>>,
                     MarkerManager_get_segment(Get(analyzer), Get(markers),
                                               start_index, end_index))

InitSegments ==
    \E d \in {ClimbingDoc(n) : n \in 0..MaxStraightPoints} :
        /\ gpx = Some(d)
        /\ analyzer = Some(NewAnalyzer(d))
        /\ markers = Some(<<>>)
        /\ last = Call("init", <<>>, None, OK)
        /\ before = Some(<<>>)
        /\ load_succeeded = FALSE

NextSegments ==
    \/ SG_add_marker
    \/ MM_clear_markers
    \/ SG_get_segment

SpecSegments == InitSegments /\ [][NextSegments]_vars

\* ------------------------------------------------------------ analyzer alone
AnalyzerLats == {0, 50, 150}
AnalyzerElevations == {None, Some(15)}
AnalyzerPoints == {RawPoint(lat, ele) : lat \in AnalyzerLats, ele \in AnalyzerElevations}

\* The ways a sample sequence is laid out in the document: all in one
\* sub-segment, one sub-segment per sample, one track per sample.
OneSegment(pts) == << <<pts>> >>
SegmentPerPoint(pts) == << [i \in 1..Len(pts) |-> <<pts[i]>>] >>
TrackPerPoint(pts) == [i \in 1..Len(pts) |-> << <<pts[i]>> >>]

AnalyzerTracks ==
    EmptyTracks
    \cup UNION {{OneSegment(pts), SegmentPerPoint(pts), TrackPerPoint(pts)} :
                    pts \in SeqsUpTo(AnalyzerPoints, MaxAnalyzerPoints) \ {<<>>}}
AnalyzerDocs == {MkDoc(t, <<>>) : t \in AnalyzerTracks}

\* A call on the analyzer alone.
AnalyzerOnly(op, args, r) ==
    /\ analyzer' = Some(r.analyzer)
    /\ last' = Call(op, args, r.ret, r.err)
    /\ UNCHANGED <<gpx, markers, before, load_succeeded>>

AN_extract_track_points ==
    LET r == extract_track_points(Get(analyzer))
    IN AnalyzerOnly("extract_track_points", <<>>,
                    [err |-> r.err, analyzer |-> r.analyzer,
                     ret |-> IF r.err = OK THEN Some(r.ret) ELSE None])

AN_calculate_stats ==
    AnalyzerOnly("calculate_stats", <<>>, calculate_stats(Get(analyzer)))

AN_find_nearest_point ==
    \E latitude \in AnalyzerLats \cup {25, 100}, longitude \in Lons :
        LET r == find_nearest_point(Get(analyzer), latitude, longitude)
        IN AnalyzerOnly("find_nearest_point", <<latitude, longitude>>,
                        [err |-> r.err, analyzer |-> r.analyzer,
                         ret |-> IF r.err = OK THEN Some(r.ret) ELSE None])

\* The two points are TrackPoint objects obtained from this analyzer.
AN_get_segment_between_points ==
    /\ Get(analyzer).track_points # None
    /\ \E start_point \in Range(Get(Get(analyzer).track_points)),
          end_point \in Range(Get(Get(analyzer).track_points)) :
            AnalyzerOnly("get_segment_between_points", <<start_point, end_point>>,
                get_segment_between_points(Get(analyzer), start_point, end_point))

\* GPXAnalyzer.__init__
InitAnalyzer ==
    \E d \in AnalyzerDocs :
        /\ gpx = Some(d)
        /\ analyzer = Some(NewAnalyzer(d))
        /\ markers = None
        /\ last = Call("init", <<>>, None, OK)
        /\ before = None
        /\ load_succeeded = FALSE

NextAnalyzer ==
    \/ AN_extract_track_points
    \/ AN_calculate_stats
    \/ AN_find_nearest_point
    \/ AN_get_segment_between_points

SpecAnalyzer == InitAnalyzer /\ [][NextAnalyzer]_vars

\* ---------------------------------------------------------------------------
\* The track points alone: a GPXAnalyzer on a sample sequence split in every
\* way into tracks and sub-segments, read by extract_track_points,
\* find_nearest_point and get_segment_between_points.
\* ---------------------------------------------------------------------------

\* tracks with one more sample, which the file puts in a new track, in a new
\* sub-segment of the last track, or in the last sub-segment (cut "same").
AppendSample(tracks, point, cut) ==
    IF cut = "track" THEN Append(tracks, << <<point>> >>)
    ELSE IF cut = "segment"
    THEN [tracks EXCEPT ![Len(tracks)] = Append(@, <<point>>)]
    ELSE [tracks EXCEPT ![Len(tracks)][Len(tracks[Len(tracks)])] = Append(@, point)]

\* The first i samples of pts laid out with the boundary cuts[k] between
\* sample k and sample k + 1.
RECURSIVE SplitTracks(_, _, _)
SplitTracks(pts, cuts, i) ==
    IF i = 1 THEN << << <<pts[1]>> >> >>
    ELSE AppendSample(SplitTracks(pts, cuts, i - 1), pts[i], cuts[i - 1])

\* The documents: no sample at all, and every sequence of 1 to
\* MaxExtractPoints samples in every layout.
ExtractDocs ==
    {MkDoc(t, <<>>) : t \in EmptyTracks}
    \cup UNION {{MkDoc(SplitTracks(pts, cuts, Len(pts)), <<>>) :
                     cuts \in [1..(Len(pts) - 1) -> {"same", "segment", "track"}]} :
                    pts \in SeqsUpTo({RawPoint(lat, Some(0)) : lat \in AnalyzerLats},
                                      MaxExtractPoints) \ {<<>>}}

InitExtract ==
    \E d \in ExtractDocs :
        /\ gpx = Some(d)
        /\ analyzer = Some(NewAnalyzer(d))
        /\ markers = None
        /\ last = Call("init", <<>>, None, OK)
        /\ before = None
        /\ load_succeeded = FALSE

\* get_segment_between_points works on the extracted list alone, which
\* carries no trace of the layout: it is called on the documents that keep
\* all their samples in one sub-segment.
EX_get_segment_between_points ==
    /\ Len(Get(gpx).tracks) = 1
    /\ Len(Get(gpx).tracks[1]) = 1
    /\ AN_get_segment_between_points

NextExtract ==
    \/ AN_extract_track_points
    \/ AN_find_nearest_point
    \/ EX_get_segment_between_points

SpecExtract == InitExtract /\ [][NextExtract]_vars

\* ------------------------------------------------------------ seeding alone
\* The service under reset, the calls that read or empty the seeded list, and
\* loads of documents with several waypoints onto a service that holds no
\* marker: a new, reset or emptied one, or one whose load found no track point.
NoMarkerHeld == markers = None \/ markers = Some(<<>>)

SeedingDocs ==
    {MkDoc(t, w) : t \in ServiceTracks, w \in SeqsUpTo(RawWaypoints, MaxSeedWaypoints)}
SeedingFiles ==
    {[size_mb |-> 1, utf8 |-> TRUE, gpx |-> Some(d)] : d \in SeedingDocs} \cup BadFiles

Seeding_load_from_file ==
    /\ NoMarkerHeld
    /\ \E file \in SeedingFiles :
            LoadInto("load_from_file", file, GPXLoader_load_from_file(file))

Seeding_load_from_url ==
    /\ NoMarkerHeld
    /\ \E url \in Urls :
            LoadInto("load_from_url", url, GPXLoader_load_from_url(url))

NextSeeding ==
    \/ Seeding_load_from_file
    \/ Seeding_load_from_url
    \/ GPXService_reset
    \/ GPXService_get_markers
    \/ GPXService_clear_markers

SpecSeeding == Init /\ [][NextSeeding]_vars

\* ---------------------------------------------------------------------------
\* The stages of the elevation pipeline alone, each a static method of
\* GPXAnalyzer applied to arrays drawn from small families.
\* ---------------------------------------------------------------------------

\* A call of a static method: nothing but the record of the call changes.
StaticCall(op, args, ret) ==
    /\ last' = Call(op, args, ret, OK)
    /\ UNCHANGED <<gpx, analyzer, markers, before, load_succeeded>>

\* The arrays of the unit test of the gain/loss stage.
TestClimbAndDescend ==
    ToRats(<<100, 105, 110, 115, 115, 110, 105, 100>>)
TestFlat == ToRats(<<100, 100, 100>>)

\* Elevations half a metre, one metre and five metres apart, so that
\* differences below, at and above the threshold of 0.5 m occur.
GainLossArrays ==
    SeqsUpTo({FromInt(100), Rat(201, 2), FromInt(101), FromInt(105)}, MaxGainLossSamples)
    \cup {TestClimbAndDescend, TestFlat}

PL_calculate_elevation_gain_loss ==
    \E elevations \in GainLossArrays :
        StaticCall("calculate_elevation_gain_loss",
                   <<elevations, elevation_threshold_meters>>,
                   calculate_elevation_gain_loss(elevations, elevation_threshold_meters))

\* n samples at 100 m with one sample at 500 m in position k (none for k = 0).
SpikeArray(n, k) == [i \in 1..n |-> IF i = k THEN FromInt(500) ELSE FromInt(100)]
SpikeArrays == {SpikeArray(n, k) : n \in 0..MaxFilterSamples, k \in 0..MaxFilterSamples}

\* Steps 2 and 3 of the pipeline: _remove_outliers, then
\* _smooth_elevation_advanced on what it returned.
PL_clean_and_smooth ==
    \E elevations \in SpikeArrays :
        StaticCall("clean_and_smooth", <<elevations>>,
                   [cleaned |-> remove_outliers(elevations),
                    smoothed |-> smooth_elevation_advanced(remove_outliers(elevations))])

\* The choice of the window in _smooth_elevation_advanced for an array of n
\* samples under settings.elevation_smoothing_window = configured.
PL_smoothing_window ==
    \E n \in 0..MaxSampleCount, configured \in (-1)..MaxConfiguredWindow :
        StaticCall("smoothing_window", <<n, configured>>, SmoothingWindow(n, configured))

InitPipeline ==
    /\ gpx = None
    /\ analyzer = None
    /\ markers = None
    /\ last = Call("init", <<>>, None, OK)
    /\ before = None
    /\ load_succeeded = FALSE

NextPipeline ==
    \/ PL_calculate_elevation_gain_loss
    \/ PL_clean_and_smooth
    \/ PL_smoothing_window

SpecPipeline == InitPipeline /\ [][NextPipeline]_vars

\* ---------------------------------------------------------------------------
\* Loading again: the service loaded from files without waypoints, from any
\* state, with its statistics read and its markers changed between the loads.
\* ---------------------------------------------------------------------------

ReloadFiles ==
    {[size_mb |-> 1, utf8 |-> TRUE, gpx |-> Some(MkDoc(t, <<>>))] : t \in ServiceTracks}
    \cup BadFiles

Reload_load_from_file ==
    \E file \in ReloadFiles :
        LoadInto("load_from_file", file, GPXLoader_load_from_file(file))

NextReload ==
    \/ Reload_load_from_file
    \/ GPXService_load_from_url
    \/ GPXService_reset
    \/ GPXService_get_stats
    \/ GPXService_add_marker
    \/ GPXService_remove_marker
    \/ GPXService_clear_markers
    \/ GPXService_move_marker_up

SpecReload == Init /\ [][NextReload]_vars

\* ------------------------------------------------------------ claims
\* The same Marker object, whatever its index field says.
SameMarker(x, y) == [x EXCEPT !.index = 0] = [y EXCEPT !.index = 0]

\* C1: after any sequence of add, remove, moveUp, moveDown and clear on a
\* marker list, with valid or out-of-range indices, the marker at position i
\* has index i, for every position of the list.
C1_IndexIsPosition ==
    \A i \in 1..Len(Get(markers)) : Get(markers)[i].index = i - 1

\* A removal from the middle of a full list has shifted a marker down.
C1_Witness ==
    /\ last.op = "remove_marker"
    /\ Len(Get(before)) = MaxMarkers
    /\ Len(Get(markers)) = MaxMarkers - 1
    /\ last.args[1] = 0

\* C8: remove(k) with k < 0 or k >= length leaves the list as it was; with a
\* valid k the list is one shorter and holds the other markers in the order
\* they had.
C8_Remove ==
    last.op = "remove_marker" =>
        LET k == last.args[1]
            old == Get(before)
            new == Get(markers)
        IN IF k < 0 \/ k >= Len(old)
           THEN new = old
           ELSE /\ Len(new) = Len(old) - 1
                /\ \A i \in 1..Len(new) :
                      SameMarker(new[i], old[IF i <= k THEN i ELSE i + 1])

\* The middle marker of three distinct markers has been removed.
C8_Witness ==
    /\ last.op = "remove_marker"
    /\ last.args[1] = 1
    /\ Len(Get(before)) = 3
    /\ Len(Get(markers)) = 2
    /\ Get(markers)[1].oid # Get(markers)[2].oid

\* C9: moveUp(i) with i <= 0 or i >= length, and moveDown(i) with i < 0 or
\* i >= length - 1, return false and leave the list as it was.
C9_MoveOutOfRange ==
    /\ (last.op = "move_marker_up"
          /\ (last.args[1] <= 0 \/ last.args[1] >= Len(Get(before))))
        => (last.ret = FALSE /\ markers = before)
    /\ (last.op = "move_marker_down"
          /\ (last.args[1] < 0 \/ last.args[1] >= Len(Get(before)) - 1))
        => (last.ret = FALSE /\ markers = before)

\* moveUp(0) has been refused on a list of several markers.
C9_Witness ==
    /\ last.op = "move_marker_up"
    /\ last.args[1] = 0
    /\ Len(Get(before)) >= 2
    /\ last.ret = FALSE

\* The markers of `new` are those of `old` with positions p and p + 1
\* (0-based) exchanged and every other position untouched.
Exchanged(old, new, p) ==
    /\ Len(new) = Len(old)
    /\ SameMarker(new[p + 1], old[p + 2])
    /\ SameMarker(new[p + 2], old[p + 1])
    /\ \A k \in 1..Len(old) : k \notin {p + 1, p + 2} => new[k] = old[k]

\* C10: moveUp(i) with 1 <= i < length returns true and exchanges the
\* markers at i and i - 1; moveDown(i) with 0 <= i < length - 1 returns true
\* and exchanges those at i and i + 1; every other position keeps its marker
\* and the length does not change.
C10_MoveExchanges ==
    /\ (last.op = "move_marker_up"
          /\ 1 <= last.args[1] /\ last.args[1] < Len(Get(before)))
        => (last.ret = TRUE /\ Exchanged(Get(before), Get(markers), last.args[1] - 1))
    /\ (last.op = "move_marker_down"
          /\ 0 <= last.args[1] /\ last.args[1] < Len(Get(before)) - 1)
        => (last.ret = TRUE /\ Exchanged(Get(before), Get(markers), last.args[1]))

\* Two distinct markers of a list of three have been exchanged by moveUp.
C10_Witness ==
    /\ last.op = "move_marker_up"
    /\ last.args[1] = 1
    /\ Len(Get(before)) = 3
    /\ last.ret = TRUE
    /\ Get(before)[1].oid # Get(before)[2].oid

\* No sub-segment of any track of the document holds a sample.
ZeroTrackPoints(g) ==
    \A t \in 1..Len(g.tracks) : \A sgm \in 1..Len(g.tracks[t]) : g.tracks[t][sgm] = <<>>

\* C3: on a document with zero track points, building the track model fails
\* with the empty-track error: no track-point list is returned and none is
\* cached, however often it is asked for.
C3_EmptyTrackFails ==
    ZeroTrackPoints(Get(gpx)) =>
        /\ Get(analyzer).track_points = None
        /\ last.op # "init" => (last.err = NoTrackPointsMsg /\ last.ret = None)

\* extract_track_points has run on a document whose only track holds one
\* empty sub-segment.
C3_Witness ==
    /\ Get(gpx).tracks = << << <<>> >> >>
    /\ last.op = "extract_track_points"
    /\ last.err = NoTrackPointsMsg

\* C5: segmentBetween(A, B) and segmentBetween(B, A) give the same points,
\* distance, ascent and descent, for segments longer than the resampling
\* minimum as for shorter ones.
C5_OrderIndependent ==
    (last.op = "get_segment_between_points" /\ last.err = OK) =>
        last.ret = get_segment_between_points(Get(analyzer),
                                              last.args[2], last.args[1]).ret

\* The two orders have been asked for and agree on everything but the climb.
C5_Witness ==
    /\ last.op = "get_segment_between_points"
    /\ last.err = OK
    /\ last.args[1].index > last.args[2].index
    /\ LET forward == Get(get_segment_between_points(Get(analyzer),
                                last.args[2], last.args[1]).ret)
       IN /\ Get(last.ret).track_points = forward.track_points
          /\ Get(last.ret).distance = forward.distance
          /\ Get(last.ret).distance > min_distance_for_resampling
          /\ Get(last.ret).ascent # forward.ascent

LoadOps == {"load_from_file", "load_from_url"}

\* The operations of the service that need a loaded track.
GuardedOps ==
    {"get_stats", "get_track_dataframe", "add_marker", "remove_marker",
     "clear_markers", "get_markers", "get_segments", "get_segment",
     "get_segments_dataframe", "move_marker_up", "move_marker_down"}

\* Nothing of a track is held by the service.
Unloaded == gpx = None /\ analyzer = None /\ markers = None

\* C2: on a service on which no load has succeeded since it was built or
\* last reset, is_loaded() is false and each of the eleven operations that
\* need a track fails with "No GPX data loaded" and leaves the service
\* holding nothing.
C2_UnloadedServiceRefuses ==
    ~load_succeeded =>
        /\ ~is_loaded
        /\ last.op \in GuardedOps => (last.err = NoDataMsg /\ Unloaded)

\* C4: a load of a document without track points, attempted on a fresh
\* service, fails with the empty-track error and leaves is_loaded() false and
\* the service holding nothing, so that every later operation still fails
\* with the unloaded-state error.
C4_EmptyLoadLeavesUnloaded ==
    (last.op \in LoadOps /\ last.err = NoTrackPointsMsg /\ before = None) =>
        (~is_loaded /\ Unloaded)

\* C6: after a successful load of a track of n points the first marker is
\* bound to the point of index 0 and, when n > 1, the last marker to the
\* point of index n - 1, also when points of the track share coordinates.
C6_SeedsBoundToEnds ==
    (last.op \in LoadOps /\ last.err = OK) =>
        LET track_points == Get(Get(analyzer).track_points)
            ms == Get(markers)
        IN /\ ms[1].track_point.index = 0
           /\ Len(track_points) > 1 =>
                ms[Len(ms)].track_point.index = Len(track_points) - 1

\* The names a load seeds for document g: the start marker, one marker per
\* waypoint in file order under the waypoint's name (the placeholder when
\* the file gives none), and the goal marker when the track has several points.
SeededNames(g) ==
    <<START_NAME>>
    \o [i \in 1..Len(g.waypoints) |->
            IF g.waypoints[i].name = None THEN DefaultWaypointName
            ELSE Get(g.waypoints[i].name)]
    \o (IF Len(FlatPoints(g)) > 1 THEN <<GOAL_NAME>> ELSE <<>>)

\* C7: after a successful load of a track with n >= 1 points and w waypoints
\* the marker list is the start marker, one marker per waypoint in file order
\* carrying the waypoint's name, and the end marker if and only if n > 1:
\* w + 2 markers when n > 1, w + 1 when n = 1.
C7_SeededMarkers ==
    (last.op \in LoadOps /\ last.err = OK) =>
        LET g == Get(gpx)
            ms == Get(markers)
        IN /\ Len(ms) = Len(g.waypoints) + (IF Len(FlatPoints(g)) > 1 THEN 2 ELSE 1)
           /\ [i \in 1..Len(ms) |-> ms[i].name] = SeededNames(g)

\* A file with several track points and two waypoints, the first unnamed and
\* the second named, has been loaded.
C7_Witness ==
    /\ last.op = "load_from_file"
    /\ last.err = OK
    /\ Len(FlatPoints(Get(gpx))) > 1
    /\ Len(Get(gpx).waypoints) = 2
    /\ Get(gpx).waypoints[1].name = None
    /\ Get(gpx).waypoints[2].name # None
    /\ Len(Get(markers)) = 4

\* C11: add(name, lat, lon, insertBeforeLast) puts the new marker at position
\* length - 1 when insertBeforeLast is true and the list is non-empty, and at
\* the end otherwise; the markers already there keep their order, and after
\* an add before the last the marker that was last is still last.
C11_AddPosition ==
    (last.op = "add_marker" /\ last.err = OK) =>
        LET old == Get(before)
            new == Get(markers)
            position == IF last.args[4] /\ Len(old) >= 1 THEN Len(old) - 1 ELSE Len(old)
        IN /\ Len(new) = Len(old) + 1
           /\ SameMarker(new[position + 1], Get(last.ret))
           /\ new[position + 1].name = last.args[1]
           /\ \A i \in 1..Len(old) : old[i].oid # new[position + 1].oid
           /\ \A i \in 1..Len(old) :
                 SameMarker(new[IF i <= position THEN i ELSE i + 1], old[i])
           /\ (last.args[4] /\ Len(old) >= 1) =>
                 SameMarker(new[Len(new)], old[Len(old)])

\* A marker has been added before the last of two markers.
C11_Witness ==
    /\ last.op = "add_marker"
    /\ last.err = OK
    /\ last.args[4]
    /\ Len(Get(before)) = 2
    /\ Len(Get(markers)) = 3
    /\ Get(markers)[2].oid = Get(last.ret).oid

\* C12: after any sequence of marker-list mutations, segments() returns
\* exactly max(0, markerCount - 1) segments, and the i-th of them starts at the
\* marker at position i and ends at the marker at position i + 1.
C12_SegmentsArePairs ==
    (last.op = "get_all_segments") =>
        /\ last.err = OK
        /\ Len(last.ret) = (IF Len(Get(markers)) >= 1 THEN Len(Get(markers)) - 1 ELSE 0)
        /\ \A i \in 1..Len(last.ret) :
              /\ last.ret[i].start_marker = Get(markers)[i]
              /\ last.ret[i].end_marker = Get(markers)[i + 1]

\* segments() has returned the two segments of a list of three markers.
C12_Witness ==
    /\ last.op = "get_all_segments"
    /\ Len(Get(markers)) = 3
    /\ Len(last.ret) = 2
    /\ last.ret[2].start_marker = Get(markers)[2]
    /\ last.ret[2].start_marker.track_point # last.ret[2].end_marker.track_point

\* An index that names a marker of the list.
InRange(index) == 0 <= index /\ index < Len(Get(markers))

\* C13: segment(i, j) returns None without raising whenever i or j lies
\* outside [0, markerCount), negative values included, and returns a Segment
\* whenever both lie inside.
C13_SegmentOrNone ==
    (last.op = "get_segment") =>
        /\ last.err = OK
        /\ (InRange(last.args[1]) /\ InRange(last.args[2])) =>
              /\ last.ret # None
              /\ Get(last.ret).start_marker = Get(markers)[last.args[1] + 1]
              /\ Get(last.ret).end_marker = Get(markers)[last.args[2] + 1]
        /\ ~(InRange(last.args[1]) /\ InRange(last.args[2])) => last.ret = None

\* segment(-1, 0) has returned None on a list that holds markers.
C13_Witness ==
    /\ last.op = "get_segment"
    /\ last.args = <<-1, 0>>
    /\ Len(Get(markers)) >= 2
    /\ last.err = OK
    /\ last.ret = None

\* C20: every Segment returned by segment(i, j) has avgGradient equal to
\* ascent / distance * 100 when its distance is positive and exactly 0 when
\* its distance is 0; no call fails on a division.
C20_AvgGradient ==
    (last.op = "get_segment") =>
        /\ last.err = OK
        /\ last.ret # None =>
              LET segment == Get(last.ret)
              IN IF segment.distance > 0
                 THEN segment.avg_gradient.n * segment.ascent.d * segment.distance
                          = 100 * segment.ascent.n * segment.avg_gradient.d
                 ELSE /\ segment.distance = 0
                      /\ segment.avg_gradient.n = 0

\* A segment that climbs, and therefore has a gradient above 0, was returned.
C20_Witness ==
    /\ last.op = "get_segment"
    /\ last.ret # None
    /\ Get(last.ret).distance > 0
    /\ Get(last.ret).ascent.n > 0
    /\ Get(last.ret).avg_gradient.n > 0

\* A segment between two markers on the same point, of distance 0, was returned.
C20_ZeroDistance ==
    /\ last.op = "get_segment"
    /\ last.ret # None
    /\ last.args[1] # last.args[2]
    /\ Get(last.ret).distance = 0

\* The TrackPoints the analyzer holds once it has extracted them.
CachedPoints == Get(Get(analyzer).track_points)

\* The distance from the coordinates of the last nearestPoint call to point.
QueryDistance(point) ==
    haversine_distance(last.args[1], last.args[2], point.latitude, point.longitude)

\* C14: nearestPoint(lat, lon) returns a TrackPoint whose distance to the
\* query is minimal over all TrackPoints and, among those at that distance,
\* the one with the lowest index; queried with the exact coordinates of
\* TrackPoint i it returns a point at distance 0 from it.
C14_NearestPoint ==
    (last.op = "find_nearest_point" /\ last.err = OK) =>
        LET nearest == Get(last.ret)
        IN /\ nearest.index + 1 \in 1..Len(CachedPoints)
           /\ CachedPoints[nearest.index + 1] = nearest
           /\ \A k \in 1..Len(CachedPoints) :
                 /\ QueryDistance(nearest) <= QueryDistance(CachedPoints[k])
                 /\ k < nearest.index + 1 =>
                       QueryDistance(nearest) < QueryDistance(CachedPoints[k])
                 /\ (last.args[1] = CachedPoints[k].latitude
                        /\ last.args[2] = CachedPoints[k].longitude) =>
                       haversine_distance(nearest.latitude, nearest.longitude,
                                          CachedPoints[k].latitude,
                                          CachedPoints[k].longitude) = 0

\* Two TrackPoints are equally near the query, a third one is farther, and
\* the earlier of the two nearest was returned.
C14_Witness ==
    /\ last.op = "find_nearest_point"
    /\ last.err = OK
    /\ Len(CachedPoints) = 3
    /\ Get(last.ret).index = 1
    /\ QueryDistance(Get(last.ret)) > 0
    /\ QueryDistance(CachedPoints[3]) = QueryDistance(Get(last.ret))
    /\ QueryDistance(CachedPoints[1]) > QueryDistance(Get(last.ret))

\* The distance between two TrackPoints.
PointDistance(p, q) == haversine_distance(p.latitude, p.longitude, q.latitude, q.longitude)

\* C16: for any non-empty raw sample sequence, split in any way into tracks
\* and sub-segments, distanceFromStart is 0 at the first TrackPoint and
\* non-decreasing along the sequence, and the running distance continues
\* across sub-segment boundaries: each point adds the distance from the
\* point before it, whichever track or sub-segment that one is in.
C16_RunningDistance ==
    (last.op = "extract_track_points" /\ last.err = OK) =>
        LET points == Get(last.ret)
        IN /\ Len(points) >= 1
           /\ points[1].distance_from_start = 0
           /\ \A k \in 1..(Len(points) - 1) :
                 /\ points[k].distance_from_start <= points[k + 1].distance_from_start
                 /\ points[k + 1].distance_from_start
                       = points[k].distance_from_start
                         + PointDistance(points[k], points[k + 1])

\* Three samples in two tracks, the first track of two sub-segments, have
\* been extracted with a distance that grows over both boundaries.
C16_Witness ==
    /\ last.op = "extract_track_points"
    /\ last.err = OK
    /\ Len(Get(gpx).tracks) = 2
    /\ Len(Get(gpx).tracks[1]) = 2
    /\ Len(Get(last.ret)) = 3
    /\ Get(last.ret)[2].distance_from_start > 0
    /\ Get(last.ret)[3].distance_from_start > Get(last.ret)[2].distance_from_start

\* C17: the k-th TrackPoint (0-based) is the k-th sample of the
\* concatenation of all sub-segments in file order and has index k; the
\* index is not reset at a track or sub-segment boundary.
C17_IndexInFileOrder ==
    (last.op = "extract_track_points" /\ last.err = OK) =>
        LET points == Get(last.ret)
            raw == Concat([t \in 1..Len(Get(gpx).tracks) |-> Concat(Get(gpx).tracks[t])])
        IN /\ Len(points) = Len(raw)
           /\ \A k \in 1..Len(points) :
                 /\ points[k].index = k - 1
                 /\ points[k].latitude = raw[k].latitude
                 /\ points[k].longitude = raw[k].longitude

\* Three samples, each in a track of its own, have been extracted.
C17_Witness ==
    /\ last.op = "extract_track_points"
    /\ last.err = OK
    /\ Len(Get(gpx).tracks) = 3
    /\ Len(Get(last.ret)) = 3
    /\ Get(last.ret)[3].index = 2
    /\ Get(last.ret)[1].latitude # Get(last.ret)[3].latitude

\* The elevations of the raw samples in file order, an absent one as 0.
RawElevations ==
    LET raw == Concat([t \in 1..Len(Get(gpx).tracks) |-> Concat(Get(gpx).tracks[t])])
    IN [k \in 1..Len(raw) |-> IF raw[k].elevation = None THEN 0 ELSE Get(raw[k].elevation)]

C19_SegmentBetween ==
    (last.op = "get_segment_between_points" /\ last.err = OK) =>
        LET A == last.args[1]
            B == last.args[2]
            low == IF A.index < B.index THEN A.index ELSE B.index
            segment == Get(last.ret)
        IN /\ Len(segment.track_points) = Abs(A.index - B.index) + 1
           /\ \A k \in 1..Len(segment.track_points) :
                 /\ segment.track_points[k].index = low + k - 1
                 /\ segment.track_points[k] = CachedPoints[low + k]
           /\ segment.distance = Abs(B.distance_from_start - A.distance_from_start)

\* The segment from the third point of a track back to its first has been
\* returned, with the point between them.
C19_Witness ==
    /\ last.op = "get_segment_between_points"
    /\ last.err = OK
    /\ last.args[1].index = 2
    /\ last.args[2].index = 0
    /\ Len(Get(last.ret).track_points) = 3
    /\ Get(last.ret).distance > 0

\* The service holds a document whose track has exactly one point.
SinglePointTrack == gpx # None /\ Len(FlatPoints(Get(gpx))) = 1

\* The part of C15 on loading and statistics: a document with a one-point
\* track that the loader has parsed loads without error, and stats() reports
\* distance 0, ascent 0, descent 0 and one point.
C15_LoadAndStats ==
    SinglePointTrack =>
        /\ (last.op \in LoadOps /\ last.err # GPXLoadError) => last.err = OK
        /\ (last.op = "get_stats") =>
              /\ last.err = OK
              /\ Get(last.ret).total_distance = 0
              /\ Get(last.ret).total_ascent.n = 0
              /\ Get(last.ret).total_descent.n = 0
              /\ Get(last.ret).total_points = 1

\* C15: for any track with exactly one point, with any number of waypoints,
\* loading succeeds without error, stats() reports totalDistance 0,
\* totalAscent 0, totalDescent 0 and totalPointCount 1, and no segments are
\* possible: segments() returns an empty list.
C15_SinglePointTrack ==
    /\ C15_LoadAndStats
    /\ (SinglePointTrack /\ last.op = "get_segments") =>
          (last.err = OK /\ last.ret = <<>>)

\* segments() on a one-point track loaded with a waypoint has returned a
\* segment of distance 0 from the start marker to the waypoint's marker.
C15_Witness ==
    /\ SinglePointTrack
    /\ last.op = "get_segments"
    /\ Len(Get(gpx).waypoints) = 1
    /\ Len(last.ret) = 1
    /\ last.ret[1].distance = 0
    /\ last.ret[1].start_marker.name = START_NAME

\* The operations that take markers away or reorder them.
MarkerMutations == {"remove_marker", "clear_markers", "move_marker_up", "move_marker_down"}

\* C22: remove, clear, moveUp and moveDown never modify a TrackPoint of the
\* track, and every marker that remains in the list keeps its name, latitude,
\* longitude and bound TrackPoint; index is the only marker field they change.
C22_MutationsKeepMarkers ==
    [][(last'.op \in MarkerMutations) =>
          /\ gpx' = gpx
          /\ analyzer' = analyzer
          /\ \A i \in 1..Len(Get(markers')) :
                \E j \in 1..Len(Get(markers)) :
                    /\ Get(markers)[j].oid = Get(markers')[i].oid
                    /\ SameMarker(Get(markers)[j], Get(markers')[i])]_vars

\* A marker has moved up past a marker bound to another point, and its index
\* has changed.
C22_Witness ==
    /\ last.op = "move_marker_up"
    /\ last.ret = TRUE
    /\ Len(Get(markers)) = 3
    /\ \E i \in 1..2 :
          /\ Get(markers)[i].oid = Get(before)[i + 1].oid
          /\ Get(markers)[i].index # Get(before)[i + 1].index
          /\ Get(markers)[i].track_point # Get(markers)[i + 1].track_point

\* The operations of the service that change the marker list of a loaded track.
MarkerOps == {"add_marker"} \cup MarkerMutations

\* C21: stats() runs the elevation pipeline at most once per loaded track:
\* the first call computes the result from the loaded track and stores it,
\* every later call on the same loaded track returns the stored result
\* without touching the analyzer, marker operations leave the stored result
\* alone, and a successful load starts from an analyzer that holds no result,
\* so that stats() then reflects the new track.
C21_StatsOncePerTrack ==
    [][/\ (last'.op = "get_stats" /\ last'.err = OK) =>
             /\ Get(analyzer').stats = last'.ret
             /\ last'.ret = calculate_stats(NewAnalyzer(Get(gpx'))).ret
             /\ (analyzer # None /\ Get(analyzer).stats # None) =>
                   (last'.ret = Get(analyzer).stats /\ analyzer' = analyzer)
       /\ (last'.op \in MarkerOps /\ analyzer # None) =>
             (gpx' = gpx /\ Get(analyzer').stats = Get(analyzer).stats)
       /\ (last'.op \in LoadOps /\ last'.err = OK) =>
             Get(analyzer').stats = None]_vars

\* stats() has answered from the stored result of a two-point track whose
\* markers were cleared after the load.
C21_Witness ==
    /\ last.op = "get_stats"
    /\ last.err = OK
    /\ Get(last.ret).total_points = 2
    /\ Get(last.ret).total_distance = 50
    /\ Get(analyzer).stats = last.ret
    /\ markers = Some(<<>>)

\* C28: a load attempt that fails with a load error (oversized, undecodable
\* or malformed input, or transport failure) leaves the service exactly as it
\* was: the track, the analyzer with its cached statistics and the marker
\* list stay in place, and a service that held nothing still holds nothing.
C28_FailedLoadKeepsState ==
    [][(last'.op \in LoadOps /\ last'.err = GPXLoadError) =>
          /\ gpx' = gpx
          /\ analyzer' = analyzer
          /\ markers' = markers
          /\ load_succeeded' = load_succeeded]_vars

\* A load has failed with a load error on a service that holds a track, its
\* cached statistics and markers.
C28_Witness ==
    /\ last.op \in LoadOps
    /\ last.err = GPXLoadError
    /\ gpx # None
    /\ Get(analyzer).stats # None
    /\ Len(Get(markers)) >= 2
    /\ before = markers

\* C29: in every reachable state of a loaded service the analyzer is the one
\* of the loaded document, and every marker of the list is bound to a
\* TrackPoint of that analyzer's point sequence, the one at the position its
\* index names, and has that TrackPoint's latitude and longitude; after a
\* second load no marker bound to a point of the previous track remains.
C29_MarkersBoundToTrack ==
    (gpx # None) =>
        /\ Get(analyzer).gpx = Get(gpx)
        /\ \A i \in 1..Len(Get(markers)) :
              LET track_point == Get(markers)[i].track_point
              IN /\ Get(analyzer).track_points # None
                 /\ track_point.index + 1 \in 1..Len(CachedPoints)
                 /\ CachedPoints[track_point.index + 1] = track_point
                 /\ Get(markers)[i].latitude = track_point.latitude
                 /\ Get(markers)[i].longitude = track_point.longitude

\* A track has been loaded onto a service whose markers were bound to the
\* points of another track: the start marker is now bound to another point.
C29_Witness ==
    /\ last.op \in LoadOps
    /\ last.err = OK
    /\ before # None
    /\ Len(Get(before)) >= 1
    /\ Get(before)[1].track_point # Get(markers)[1].track_point
    /\ CachedPoints[1] = Get(markers)[1].track_point

\* C24: the gain/loss stage returns ascent = the sum of the consecutive
\* differences strictly greater than the threshold and descent = the sum of
\* the absolute values of those strictly less than minus the threshold; a
\* difference equal to +threshold or -threshold counts for neither, fewer
\* than 2 samples give (0, 0), and with threshold 0.5 the array
\* [100,105,110,115,115,110,105,100] gives (15, 15) and [100,100,100] (0, 0).
C24_GainLoss ==
    (last.op = "calculate_elevation_gain_loss") =>
        LET e == last.args[1]
            threshold == last.args[2]
            rise(i) == RSub(e[i + 1], e[i])
        IN /\ threshold = Rat(1, 2)
           /\ last.ret.ascent
                = RSum([i \in 1..(Len(e) - 1) |->
                          IF RLess(threshold, rise(i)) THEN rise(i) ELSE FromInt(0)])
           /\ last.ret.descent
                = RSum([i \in 1..(Len(e) - 1) |->
                          IF RLess(rise(i), RNeg(threshold)) THEN RAbs(rise(i))
                          ELSE FromInt(0)])
           /\ Len(e) < 2 => last.ret = [ascent |-> FromInt(0), descent |-> FromInt(0)]
           /\ e = ToRats(<<100, 105, 110, 115, 115, 110, 105, 100>>) =>
                 last.ret = [ascent |-> FromInt(15), descent |-> FromInt(15)]
           /\ e = ToRats(<<100, 100, 100>>) =>
                 last.ret = [ascent |-> FromInt(0), descent |-> FromInt(0)]

\* An array that rises by exactly the threshold and falls by exactly the
\* threshold has been given (0, 0).
C24_Witness ==
    /\ last.op = "calculate_elevation_gain_loss"
    /\ last.args[1] = <<FromInt(100), Rat(201, 2), FromInt(100)>>
    /\ last.ret = [ascent |-> FromInt(0), descent |-> FromInt(0)]

\* C25: for any elevation array of fewer than 20 samples, outlier removal and
\* smoothing both return the array unchanged, so the array that reaches the
\* gain/loss stage equals the array that entered outlier removal.
C25_ShortArraysUnfiltered ==
    (last.op = "clean_and_smooth" /\ Len(last.args[1]) < 20) =>
        /\ last.ret.cleaned = last.args[1]
        /\ last.ret.smoothed = last.args[1]

\* An array of 19 samples with a spike of 400 m has passed both stages
\* unchanged.
C25_Witness ==
    /\ last.op = "clean_and_smooth"
    /\ Len(last.args[1]) = 19
    /\ last.args[1][10] = FromInt(500)
    /\ last.args[1][9] = FromInt(100)
    /\ last.ret.smoothed = last.args[1]

\* The same spike in an array of 20 samples has been removed.
C25_FilteredAtTwenty ==
    /\ last.op = "clean_and_smooth"
    /\ Len(last.args[1]) = 20
    /\ last.args[1][10] = FromInt(500)
    /\ last.ret.cleaned[10] = FromInt(100)

\* C27: for every sample count n >= 20 and every configured window, smoothing
\* either returns its input unchanged (window 0 here) or filters with a
\* window that is odd, at least 3 and at most n: 3 when 20 <= n <= 49; for
\* n >= 50 the configured window, less one if even, when it fits, otherwise
\* the largest odd value <= n; a window that would be below 3 skips smoothing.
C27_SmoothingWindow ==
    (last.op = "smoothing_window" /\ last.args[1] >= 20) =>
        LET n == last.args[1]
            configured == last.args[2]
            odd(w) == IF w % 2 = 0 THEN w - 1 ELSE w
            wanted == IF n <= 49 THEN 3
                      ELSE IF configured <= n THEN odd(configured) ELSE odd(n)
        IN /\ last.ret = 0 \/ (last.ret % 2 = 1 /\ last.ret >= 3 /\ last.ret <= n)
           /\ last.ret = (IF wanted < 3 THEN 0 ELSE wanted)

\* A configured window of 52 does not fit 50 samples: the window is 49.
C27_Witness ==
    /\ last.op = "smoothing_window"
    /\ last.args = <<50, 52>>
    /\ last.ret = 49

\* The resampled grid has floor(total / interval) + 1 samples, from 0 to total.
GridAsClaimed(new_distances, total) ==
    /\ Len(new_distances) = RFloor(RDiv(total, FromInt(distance_resampling_meters))) + 1
    /\ new_distances[1] = FromInt(0)
    /\ new_distances[Len(new_distances)] = total

\* Step 1 on the arrays of a track or segment of length total: unchanged
\* elevations at or below the minimum distance and for fewer than 2 samples,
\* otherwise the elevations interpolated on a grid from 0 to total.
ResamplingAsClaimed(distances, elevations, total) ==
    IF ~RLess(FromInt(min_distance_for_resampling), total) \/ Len(elevations) < 2
    THEN ResampleStep(distances, elevations, total) = elevations
    ELSE /\ ResampleStep(distances, elevations, total)
                = resample_by_distance(distances, elevations,
                                       distance_resampling_meters).elevations
         /\ Len(ResampleStep(distances, elevations, total))
                = RFloor(RDiv(total, FromInt(distance_resampling_meters))) + 1
         /\ GridAsClaimed(resample_by_distance(distances, elevations,
                                               distance_resampling_meters).distances,
                          total)

\* Step 1 as calculate_stats runs it on the cached points.
TrackResamplingAsClaimed(points) ==
    ResamplingAsClaimed(ToRats(DataFrame(points).distance),
                        ToRats(DataFrame(points).elevation),
                        FromInt(points[Len(points)].distance_from_start))

\* Step 1 as get_segment_between_points runs it for the returned segment.
SegmentResamplingAsClaimed(segment, start_point) ==
    ResamplingAsClaimed(SegmentDistances(segment.track_points, start_point),
                        SegmentElevations(segment.track_points),
                        FromInt(segment.distance))

\* C26: resampling is applied exactly when the total distance of the track or
\* segment is strictly greater than 100 m, and otherwise the elevations pass
\* unchanged; applied to at least 2 samples it yields floor(total/interval)+1
\* samples, the first at distance 0 and the last at the total distance; fewer
\* than 2 samples are returned unchanged.
C26_Resampling ==
    /\ (last.op = "calculate_stats" /\ last.err = OK) =>
            TrackResamplingAsClaimed(CachedPoints)
    /\ (last.op = "get_segment_between_points" /\ last.err = OK) =>
            SegmentResamplingAsClaimed(Get(last.ret), last.args[1])

\* The same for whole tracks and for segments asked for in track order.
C26_ForwardResampling ==
    /\ (last.op = "calculate_stats" /\ last.err = OK) =>
            TrackResamplingAsClaimed(CachedPoints)
    /\ (/\ last.op = "get_segment_between_points"
        /\ last.err = OK
        /\ last.args[1].index <= last.args[2].index) =>
            SegmentResamplingAsClaimed(Get(last.ret), last.args[1])

\* A segment of 150 m asked for from its later point: resampling is applied
\* and leaves a single sample.
C26_Witness ==
    /\ last.op = "get_segment_between_points"
    /\ last.err = OK
    /\ last.args[1].index > last.args[2].index
    /\ Get(last.ret).distance = 150
    /\ Len(ResampleStep(SegmentDistances(Get(last.ret).track_points, last.args[1]),
                        SegmentElevations(Get(last.ret).track_points),
                        FromInt(Get(last.ret).distance))) = 1

\* Whole tracks of 100 m (not resampled) and of 150 m (16 samples).
C26_TrackAtMinimum ==
    /\ last.op = "calculate_stats"
    /\ last.err = OK
    /\ Get(last.ret).total_distance = min_distance_for_resampling
    /\ Get(last.ret).total_points = 2

C26_TrackResampled ==
    /\ last.op = "calculate_stats"
    /\ last.err = OK
    /\ Get(last.ret).total_distance = 150
    /\ Len(ResampleStep(ToRats(DataFrame(CachedPoints).distance),
                        ToRats(DataFrame(CachedPoints).elevation),
                        FromInt(150))) = 16

\* A distance array that starts at 0, never decreases and ends at distance.
RebasedToFirst(distances_segment, distance) ==
    /\ distances_segment[1] = FromInt(0)
    /\ \A i \in 1..(Len(distances_segment) - 1) :
            RLeq(distances_segment[i], distances_segment[i + 1])
    /\ distances_segment[Len(distances_segment)] = FromInt(distance)

\* C23: in segmentBetween the distance array handed to the elevation pipeline
\* is re-based to the first point of the sub-range whichever point the caller
\* passes first: its first element is 0, it is non-decreasing, and its last
\* element equals the segment distance.
C23_RebasedDistances ==
    (last.op = "get_segment_between_points" /\ last.err = OK) =>
        RebasedToFirst(SegmentDistances(Get(last.ret).track_points, last.args[1]),
                       Get(last.ret).distance)

\* The same for the calls that pass the earlier point first.
C23_ForwardRebased ==
    (/\ last.op = "get_segment_between_points"
     /\ last.err = OK
     /\ last.args[1].index <= last.args[2].index) =>
        RebasedToFirst(SegmentDistances(Get(last.ret).track_points, last.args[1]),
                       Get(last.ret).distance)

\* Three points asked for from the last one: the array runs from minus the
\* segment distance up to 0.
C23_Witness ==
    /\ last.op = "get_segment_between_points"
    /\ last.err = OK
    /\ last.args[1].index > last.args[2].index
    /\ Len(Get(last.ret).track_points) = 3
    /\ Get(last.ret).distance = 150
    /\ SegmentDistances(Get(last.ret).track_points, last.args[1])
            = ToRats(<<-150, -100, 0>>)

\* The statistics calculate_stats has stored and reports from then on.
TrackStats == Get(Get(analyzer).stats)

\* The segment tuple carries the totals of the statistics.
SameTotals(segment, stats) ==
    /\ segment.distance = stats.total_distance
    /\ segment.ascent = stats.total_ascent
    /\ segment.descent = stats.total_descent

====
